---- MODULE Spec2Model ----
(***************************************************************************)
(* BrainTrace knowledge-graph pipeline: the graph merger                   *)
(* (Neo4jHandler.insert_nodes_and_edges), the ingest orchestration around  *)
(* it and source removal, as state machines over the persisted graph.      *)
(***************************************************************************)
EXTENDS Integers, Sequences, FiniteSets, Bags, TLC

(***************************************************************************)
(* Bounds of the model.                                                    *)
(***************************************************************************)
\* work of one run: the nodes and edges handed to insert_nodes_and_edges, all
\* calls together, plus the remove_source calls
MaxItems == 3

\* sentences of one document
MaxSentences == 12

\* sentences of a document that goes through the recursive chunker
MaxDocument == 8

\* depth of the recursion of the chunker
MaxDepth == 3

\* atoms of a text given to the segmenter
MaxText == 6

\* noun phrases of a final chunk given to the chunk graph builder
MaxPhrases == 10

\* file selections made in the source panel
MaxSelections == 2

\* memos of the project shown by the memo panel
MaxMemos == 2

\* calls of the memo panel waiting on the backend at one time
MaxCalls == 2

(***************************************************************************)
(* Input domains.  A Python value is a record: a dict carries its items in *)
(* insertion order as <<key, value>> pairs, anything else is "str".        *)
(***************************************************************************)
Brains == {"b1", "b2"}
Names == {"q", "r"}
Labels == {"q", "q*"}
Relations == {"has", "is"}
Sources == {"s1", "s2"}

PyDict(items) == [type |-> "dict", items |-> items]
PyStr == [type |-> "str", items |-> <<>>]

\* one description / original-sentence record per source, as make_node tags it
DescOf(s) == PyDict(<< <<"description", "d">>, <<"source_id", s>> >>)
OrigOf(s) == PyDict(<< <<"original_sentence", "o">>, <<"source_id", s>> >>)

\* the descriptions lists a batch node may carry; "absent" is a node dict
\* without the key (the root keyword node has no original_sentences key)
DescLists ==
    { <<>>,
      <<PyStr, DescOf("s1")>>,
      <<DescOf("s2"), DescOf("s2")>> }

\* original_sentences parallel to a descriptions list
RECURSIVE OrigsFor(_)
OrigsFor(ds) ==
    IF ds = <<>> THEN <<>>
    ELSE LET d == Head(ds) IN
         <<IF d.type = "dict" THEN OrigOf(d.items[2][2]) ELSE PyStr>>
            \o OrigsFor(Tail(ds))

\* a batch node: a dict with name, label, descriptions and, unless the
\* descriptions are empty, original_sentences
NodeDict(n, l, ds) ==
    [name |-> n, label |-> l, descriptions |-> ds,
     has_originals |-> ds # <<>>, original_sentences |-> OrigsFor(ds)]

NodeDicts == {NodeDict(n, l, ds) : n \in Names, l \in Labels, ds \in DescLists}

EdgeDict(s, t, r) == [source |-> s, target |-> t, relation |-> r]

\* the edges of a batch run from keyword "q" to keyword "r"
EdgeDicts == {EdgeDict("q", "r", r) : r \in Relations}

(***************************************************************************)
(* json.dumps(d, ensure_ascii=False) of a dict: the items in insertion     *)
(* order, as one string.                                                   *)
(***************************************************************************)
RECURSIVE DumpItems(_)
DumpItems(items) ==
    IF items = <<>> THEN ""
    ELSE "\"" \o Head(items)[1] \o "\": \"" \o Head(items)[2] \o "\""
         \o (IF Len(items) > 1 THEN ", " ELSE "")
         \o DumpItems(Tail(items))

JsonDumps(d) == "{" \o DumpItems(d.items) \o "}"

\* [json.dumps(d) for d in node.get(key, []) if isinstance(d, dict)]
RECURSIVE DumpDicts(_)
DumpDicts(vals) ==
    IF vals = <<>> THEN <<>>
    ELSE (IF Head(vals).type = "dict" THEN <<JsonDumps(Head(vals))>> ELSE <<>>)
         \o DumpDicts(Tail(vals))

NewDescriptions(node) == DumpDicts(node.descriptions)

NewOriginals(node) ==
    IF node.has_originals THEN DumpDicts(node.original_sentences) ELSE <<>>

(***************************************************************************)
(* The persisted graph: a bag of :Node records and a bag of :REL records.  *)
(* Bags, because nothing in the store itself forbids two equal elements.   *)
(***************************************************************************)
VARIABLES
    nodes,      \* bag of [name, brain_id, label, descriptions, original_sentences]
    edges,      \* bag of [source, target, relation, brain_id]
    items,      \* nodes and edges merged plus sources removed so far
    pc,         \* per ingest job: where its orchestration stands
    batch,      \* per ingest job: the in-memory batch [nodes, edges]
    cancel,     \* per ingest job: a cancellation signal has arrived
    base,       \* per ingest job: the project graph its transaction started from
    pos,        \* per ingest job: statements its transaction has run
    attempts,   \* per ingest job: retries of its merge so far
    lock,       \* per project: the job inside its critical section, or "free"
    result,     \* per ingest job: what the ingest returned, "none" while running
    removals    \* remove_source calls made so far

\* the text pipeline of one job, before the merge
VARIABLES
    similarity_matrix,  \* per sentence index, the row of its similarities
    chunk,              \* grouping_into_smaller_chunks: its chunk argument
    threshold,          \* grouping_into_smaller_chunks: its threshold argument
    new_chunk_groups    \* grouping_into_smaller_chunks: what it returned,
                        \* <<>> before it has

\* recurrsive_chunking and the chunk graph builder for one job
VARIABLES
    tokens,             \* per sentence index of the document, its phrase
    stack,              \* calls of recurrsive_chunking still to be made
    already_made,       \* the names for which the job has made a node
    nodes_and_edges,    \* nodes and edges the job has emitted, in order
    final_chunks,       \* the chunks the chunker has returned so far
    built,              \* final chunks handed to _extract_from_chunk
    phase               \* "start", "chunking", "extracting", "done", "raised",
                        \* "aborted"

\* split_into_tokenized_sentence run on a text and on its own output
VARIABLES
    text,               \* the text given
    final_sentences,    \* the sentences of the text
    resegmented,        \* the sentences of their newline-join
    runs                \* runs of the segmenter so far

\* FileView and SourcePanel: the upload queue of the file list
VARIABLES
    externalUploadQueue,  \* SourcePanel state: the items of the last selection
    uploadQueue,          \* FileView state: items waiting for upload/conversion
    isProcessing,         \* FileView state: a conversion is running
    updates,              \* state updates enqueued and not yet rendered
    effects,              \* effects of the last render still to run
    uploading,            \* calls of processNextInQueue waiting on the backend
    enqueued,             \* every item appended to uploadQueue so far, in order
    handled,              \* per removal from uploadQueue: what was processed
    selections            \* file selections made so far

\* InsightPanel and MemoListPanel: the memos and the bin
VARIABLES
    memos,                \* InsightPanel state: the memos, deleted ones included
    requests,             \* handler calls waiting on the backend
    last_done,            \* per memo: its last operation that succeeded
    responded             \* how the last backend call ended

graphVars == <<nodes, edges>>

memoVars == <<memos, requests, last_done, responded>>

uploadVars ==
    <<externalUploadQueue, uploadQueue, isProcessing, updates, effects, uploading,
      enqueued, handled, selections>>

frontVars == <<uploadVars, memoVars>>

groupVars == <<chunk, threshold, new_chunk_groups>>

chunkVars ==
    <<tokens, stack, already_made, nodes_and_edges, final_chunks, built, phase>>

segmentVars == <<text, final_sentences, resegmented, runs>>

pipeVars == <<similarity_matrix, groupVars, chunkVars, segmentVars>>

jobVars == <<pc, batch, cancel, base, pos, attempts, lock, result>>

vars ==
    <<nodes, edges, items, pc, batch, cancel, base, pos, attempts, lock, result,
      removals, pipeVars, frontVars>>

\* a property that was never set
Null == <<"null">>

InSeq(x, s) == \E i \in 1..Len(s) : s[i] = x

ToSet(s) == {s[i] : i \in 1..Len(s)}

RECURSIVE SumCounts(_, _)
SumCounts(B, S) ==
    IF S = {} THEN 0
    ELSE LET e == CHOOSE x \in S : TRUE IN B[e] + SumCounts(B, S \ {e})

\* number of elements of bag B that satisfy P
CountWhere(B, P(_)) == SumCounts(B, {e \in BagToSet(B) : P(e)})

\* the bag B with every element e replaced by F(e)
MapBag(B, F(_)) ==
    LET S == BagToSet(B)
        img == {F(e) : e \in S}
    IN [x \in img |-> SumCounts(B, {e \in S : F(e) = x})]

\* the elements of B that satisfy P, with their counts
FilterBag(B, P(_)) ==
    LET S == {e \in BagToSet(B) : P(e)} IN [x \in S |-> B[x]]

(***************************************************************************)
(* MERGE (n:Node {name: $name, brain_id: $brain_id}) ON CREATE ... ON MATCH *)
(***************************************************************************)
\* the list concatenation without its WHERE NOT item IN filter
AppendAll(stored, new) ==
    IF stored = Null THEN new ELSE stored \o new

\* n.descriptions + [item IN $new WHERE NOT item IN n.descriptions]
AppendMissing(stored, new) ==
    IF stored = Null THEN new
    ELSE stored \o SelectSeq(new, LAMBDA item : ~InSeq(item, stored))

OnCreate(node, brain_id) ==
    [name |-> node.name, brain_id |-> brain_id, label |-> node.label,
     descriptions |-> NewDescriptions(node),
     original_sentences |-> NewOriginals(node)]

\* ON MATCH SET written like ON CREATE SET: the stored lists are overwritten
OnMatchOverwrite(n, node, brain_id) ==
    [n EXCEPT !.label = node.label,
              !.brain_id = brain_id,
              !.descriptions = NewDescriptions(node),
              !.original_sentences = NewOriginals(node)]

OnMatch(n, node, brain_id) ==
    [n EXCEPT !.label = node.label,
              !.brain_id = brain_id,
              !.descriptions = AppendMissing(@, NewDescriptions(node)),
              !.original_sentences = AppendMissing(@, NewOriginals(node))]

NodeMatches(n, name, brain_id) == n.name = name /\ n.brain_id = brain_id

\* CREATE instead of MERGE: a node is added whether or not one matches
CreateNode(N, node, brain_id) ==
    N (+) SetToBag({OnCreate(node, brain_id)})

MergeNode(N, node, brain_id) ==
    IF \E n \in BagToSet(N) : NodeMatches(n, node.name, brain_id)
    THEN MapBag(N, LAMBDA n : IF NodeMatches(n, node.name, brain_id)
                              THEN OnMatch(n, node, brain_id) ELSE n)
    ELSE N (+) SetToBag({OnCreate(node, brain_id)})

(***************************************************************************)
(* MATCH (a), MATCH (b), MERGE (a)-[r:REL {relation, brain_id}]->(b)       *)
(***************************************************************************)
RelOf(edge, brain_id) ==
    [source |-> edge.source, target |-> edge.target,
     relation |-> edge.relation, brain_id |-> brain_id]

\* the relationship MERGE without the MATCH of its target node
MergeEdgeUnmatchedTarget(N, E, edge, brain_id) ==
    IF /\ \E a \in BagToSet(N) : NodeMatches(a, edge.source, brain_id)
       /\ RelOf(edge, brain_id) \notin BagToSet(E)
    THEN E (+) SetToBag({RelOf(edge, brain_id)})
    ELSE E

MergeEdge(N, E, edge, brain_id) ==
    IF /\ \E a \in BagToSet(N) : NodeMatches(a, edge.source, brain_id)
       /\ \E b \in BagToSet(N) : NodeMatches(b, edge.target, brain_id)
       /\ RelOf(edge, brain_id) \notin BagToSet(E)
    THEN E (+) SetToBag({RelOf(edge, brain_id)})
    ELSE E

\* the two loops of _insert
\* a loop that returns after its first node
InsertFirstNode(N, todo, brain_id) ==
    IF todo = <<>> THEN N ELSE MergeNode(N, Head(todo), brain_id)

RECURSIVE InsertNodes(_, _, _)
InsertNodes(N, todo, brain_id) ==
    IF todo = <<>> THEN N
    ELSE InsertNodes(MergeNode(N, Head(todo), brain_id), Tail(todo), brain_id)

\* the relationships written with CREATE: no look for an equal one first
CreateEdges(N, E, todo, brain_id) ==
    E (+) SetToBag({RelOf(todo[i], brain_id) : i \in
            {k \in 1..Len(todo) :
                /\ \E a \in BagToSet(N) : NodeMatches(a, todo[k].source, brain_id)
                /\ \E b \in BagToSet(N) : NodeMatches(b, todo[k].target, brain_id)}})

RECURSIVE InsertEdges(_, _, _, _)
InsertEdges(N, E, todo, brain_id) ==
    IF todo = <<>> THEN E
    ELSE InsertEdges(N, MergeEdge(N, E, Head(todo), brain_id), Tail(todo), brain_id)

\* _insert(tx, nodes, edges, brain_id): the graph it leaves
Insert(G, batchNodes, batchEdges, brain_id) ==
    LET N == InsertNodes(G.nodes, batchNodes, brain_id)
    IN [nodes |-> N, edges |-> InsertEdges(N, G.edges, batchEdges, brain_id)]

Graph == [nodes |-> nodes, edges |-> edges]


\* the ingest jobs: j1 and j2 upload sources s1 and s2 to project b1, j3
\* uploads s1 to project b2
Jobs == {"j1", "j2", "j3"}

BrainOf(j) == IF j = "j3" THEN "b2" ELSE "b1"

SourceOf(j) == IF j = "j2" THEN "s2" ELSE "s1"

EmptyGraph == [nodes |-> EmptyBag, edges |-> EmptyBag]

NoBatch == [nodes |-> <<>>, edges |-> <<>>]

\* the store is empty and no job has started
InitStore ==
    /\ nodes = EmptyBag
    /\ edges = EmptyBag
    /\ items = 0
    /\ pc = [j \in Jobs |-> "idle"]
    /\ batch = [j \in Jobs |-> NoBatch]
    /\ cancel = [j \in Jobs |-> FALSE]
    /\ base = [j \in Jobs |-> EmptyGraph]
    /\ pos = [j \in Jobs |-> 0]
    /\ attempts = [j \in Jobs |-> 0]
    /\ lock = [b \in Brains |-> "free"]
    /\ result = [j \in Jobs |-> "none"]
    /\ removals = 0

\* nothing was selected for upload
NothingUploaded ==
    /\ externalUploadQueue = <<>>
    /\ uploadQueue = <<>>
    /\ isProcessing = FALSE
    /\ updates = <<>>
    /\ effects = {}
    /\ uploading = <<>>
    /\ enqueued = <<>>
    /\ handled = <<>>
    /\ selections = 0

MemoNames == <<"m1", "m2", "m3", "m4">>

MemoIds == {MemoNames[i] : i \in 1..MaxMemos}

\* no memo is loaded
NoMemos ==
    /\ memos = <<>>
    /\ requests = {}
    /\ last_done = [id \in MemoIds |-> "none"]
    /\ responded = "none"

InitFront == NothingUploaded /\ NoMemos

\* split_into_tokenized_sentence has not been called
NothingSegmented ==
    /\ text = <<>>
    /\ final_sentences = <<>>
    /\ resegmented = <<>>
    /\ runs = 0

\* recurrsive_chunking has not been called
NothingChunked ==
    /\ tokens = <<>>
    /\ stack = <<>>
    /\ already_made = <<>>
    /\ nodes_and_edges = [nodes |-> <<>>, edges |-> <<>>]
    /\ final_chunks = <<>>
    /\ built = 0
    /\ phase = "start"

\* no document is in the text pipeline
InitPipe ==
    /\ similarity_matrix = <<>>
    /\ chunk = <<>>
    /\ threshold = [num |-> 0, den |-> 1]
    /\ new_chunk_groups = <<>>
    /\ NothingChunked
    /\ NothingSegmented

Init == InitStore /\ InitPipe /\ InitFront

\* insert_nodes_and_edges(nodes, edges, brain_id)
InsertNodesAndEdges(batchNodes, batchEdges, brain_id) ==
    /\ items + Len(batchNodes) + Len(batchEdges) <= MaxItems
    /\ LET G == Insert(Graph, batchNodes, batchEdges, brain_id) IN
        /\ nodes' = G.nodes
        /\ edges' = G.edges
    /\ items' = items + Len(batchNodes) + Len(batchEdges)
    /\ UNCHANGED <<jobVars, removals, pipeVars, frontVars>>

Next ==
    \E b \in Brains, kn \in 0..(MaxItems - items) :
        \E ke \in 0..(MaxItems - items - kn) :
            \E bn \in [1..kn -> NodeDicts], be \in [1..ke -> EdgeDicts] :
                InsertNodesAndEdges(bn, be, b)

Spec == Init /\ [][Next]_vars

\* the merger as two ingests of one source use it: each ingest ends in one
\* call of insert_nodes_and_edges, with the batch of its text
SpecReingest == Init /\ [][Next]_vars

(***************************************************************************)
(* The ingest orchestration around the merger: one job per uploaded        *)
(* source.  A job builds its batch in memory, enters the critical section  *)
(* of its project, runs _insert statement by statement in one transaction  *)
(* and commits; a transient fault rolls the transaction back and the merge *)
(* is retried, twice at most.                                              *)
(***************************************************************************)
\* retries of a merge after a transient I/O fault
MaxRetries == 2

\* the batches the chunker can hand to job j: the two keywords of its
\* source with the edge between them, or one keyword and an edge to a
\* keyword that this source never emitted as a node
JobBatches(j) ==
    LET qn == NodeDict("q", "q", <<DescOf(SourceOf(j))>>)
        rn == NodeDict("r", "q*", <<DescOf(SourceOf(j))>>)
    IN { [nodes |-> <<qn, rn>>, edges |-> <<EdgeDict("q", "r", "has")>>],
         [nodes |-> <<qn>>, edges |-> <<EdgeDict("q", "r", "is")>>] }

Statements(j) == Len(batch[j].nodes) + Len(batch[j].edges)

\* the part of the persisted graph that belongs to project b
ProjectGraph(b) ==
    [nodes |-> FilterBag(nodes, LAMBDA n : n.brain_id = b),
     edges |-> FilterBag(edges, LAMBDA e : e.brain_id = b)]

Running == {"chunked", "merging"}

Failures == {"rejected", "cancelled", "failed"}

\* InputRejected: empty text
RejectInput(j) ==
    /\ pc[j] = "idle"
    /\ pc' = [pc EXCEPT ![j] = "rejected"]
    /\ result' = [result EXCEPT ![j] = "InputRejected"]
    /\ UNCHANGED <<frontVars, pipeVars, graphVars, items, removals, batch, cancel, base, pos, attempts, lock>>

\* segmentation, chunking and node/edge extraction: the batch is in memory
BuildBatch(j, b) ==
    /\ pc[j] = "idle"
    /\ pc' = [pc EXCEPT ![j] = "chunked"]
    /\ batch' = [batch EXCEPT ![j] = b]
    /\ UNCHANGED <<frontVars, pipeVars, graphVars, items, removals, cancel, base, pos, attempts, lock, result>>

\* a cancellation signal reaches the orchestrator of a running job
RequestCancel(j) ==
    /\ pc[j] \in Running
    /\ ~cancel[j]
    /\ cancel' = [cancel EXCEPT ![j] = TRUE]
    /\ UNCHANGED <<frontVars, pipeVars, graphVars, items, removals, pc, batch, base, pos, attempts, lock, result>>

\* the cancellation honoured at any point, an open transaction included
DiscardBatchAnywhere(j) ==
    /\ pc[j] \in Running
    /\ cancel[j]
    /\ pc' = [pc EXCEPT ![j] = "cancelled"]
    /\ batch' = [batch EXCEPT ![j] = NoBatch]
    /\ lock' = [b \in Brains |-> IF lock[b] = j THEN "free" ELSE lock[b]]
    /\ result' = [result EXCEPT ![j] = "Cancelled"]
    /\ UNCHANGED <<frontVars, pipeVars, graphVars, items, removals, cancel, base, pos, attempts>>

\* cancelled between chunking and merge: the batch is discarded
DiscardBatch(j) ==
    /\ pc[j] = "chunked"
    /\ cancel[j]
    /\ pc' = [pc EXCEPT ![j] = "cancelled"]
    /\ batch' = [batch EXCEPT ![j] = NoBatch]
    /\ result' = [result EXCEPT ![j] = "Cancelled"]
    /\ UNCHANGED <<frontVars, pipeVars, graphVars, items, removals, cancel, base, pos, attempts, lock>>

\* run without the per-project critical section: the merge starts at once
BeginMergeUnlocked(j) ==
    /\ pc[j] = "chunked"
    /\ ~cancel[j]
    /\ pc' = [pc EXCEPT ![j] = "merging"]
    /\ lock' = [lock EXCEPT ![BrainOf(j)] = j]
    /\ base' = [base EXCEPT ![j] = ProjectGraph(BrainOf(j))]
    /\ pos' = [pos EXCEPT ![j] = 0]
    /\ UNCHANGED <<frontVars, pipeVars, graphVars, items, removals, batch, cancel, attempts, result>>

\* enter the critical section of the project and open the transaction
BeginMerge(j) ==
    /\ pc[j] = "chunked"
    /\ ~cancel[j]
    /\ lock[BrainOf(j)] = "free"
    /\ pc' = [pc EXCEPT ![j] = "merging"]
    /\ lock' = [lock EXCEPT ![BrainOf(j)] = j]
    /\ base' = [base EXCEPT ![j] = ProjectGraph(BrainOf(j))]
    /\ pos' = [pos EXCEPT ![j] = 0]
    /\ UNCHANGED <<frontVars, pipeVars, graphVars, items, removals, batch, cancel, attempts, result>>

\* one tx.run of _insert inside the open transaction
RunStatement(j) ==
    /\ pc[j] = "merging"
    /\ pos[j] < Statements(j)
    /\ pos' = [pos EXCEPT ![j] = @ + 1]
    /\ UNCHANGED <<frontVars, pipeVars, graphVars, items, removals, pc, batch, cancel, base, attempts, lock, result>>

\* a transient I/O fault: the transaction is rolled back and, after the
\* backoff, started again
RetryMerge(j) ==
    /\ pc[j] = "merging"
    /\ attempts[j] < MaxRetries
    /\ attempts' = [attempts EXCEPT ![j] = @ + 1]
    /\ base' = [base EXCEPT ![j] = ProjectGraph(BrainOf(j))]
    /\ pos' = [pos EXCEPT ![j] = 0]
    /\ UNCHANGED <<frontVars, pipeVars, graphVars, items, removals, pc, batch, cancel, lock, result>>

\* the failure surfaced without a rollback: what the transaction wrote stays
SurfaceFailureUnrolled(j) ==
    /\ pc[j] = "merging"
    /\ attempts[j] = MaxRetries
    /\ LET ran == IF pos[j] < Len(batch[j].nodes) THEN pos[j] ELSE Len(batch[j].nodes)
           done == Insert(base[j], SubSeq(batch[j].nodes, 1, ran), <<>>, BrainOf(j)) IN
        /\ nodes' = FilterBag(nodes, LAMBDA n : n.brain_id # BrainOf(j)) (+) done.nodes
        /\ edges' = edges
    /\ pc' = [pc EXCEPT ![j] = "failed"]
    /\ batch' = [batch EXCEPT ![j] = NoBatch]
    /\ lock' = [lock EXCEPT ![BrainOf(j)] = "free"]
    /\ result' = [result EXCEPT ![j] = "PersistenceTransient"]
    /\ UNCHANGED <<frontVars, pipeVars, items, removals, cancel, base, pos, attempts>>

\* a transient I/O fault with the retries used up: rolled back and surfaced
SurfaceFailure(j) ==
    /\ pc[j] = "merging"
    /\ attempts[j] = MaxRetries
    /\ pc' = [pc EXCEPT ![j] = "failed"]
    /\ batch' = [batch EXCEPT ![j] = NoBatch]
    /\ lock' = [lock EXCEPT ![BrainOf(j)] = "free"]
    /\ result' = [result EXCEPT ![j] = "PersistenceTransient"]
    /\ UNCHANGED <<frontVars, pipeVars, graphVars, items, removals, cancel, base, pos, attempts>>

\* what the transaction of job j holds for its project when it commits
Committed(j) == Insert(base[j], batch[j].nodes, batch[j].edges, BrainOf(j))

\* the transaction commits: its project graph replaces the persisted one
CommitMerge(j) ==
    /\ pc[j] = "merging"
    /\ pos[j] = Statements(j)
    /\ nodes' = FilterBag(nodes, LAMBDA n : n.brain_id # BrainOf(j))
                   (+) Committed(j).nodes
    /\ edges' = FilterBag(edges, LAMBDA e : e.brain_id # BrainOf(j))
                   (+) Committed(j).edges
    /\ pc' = [pc EXCEPT ![j] = "done"]
    /\ lock' = [lock EXCEPT ![BrainOf(j)] = "free"]
    /\ result' = [result EXCEPT ![j] = "ok"]
    /\ UNCHANGED <<frontVars, pipeVars, items, removals, batch, cancel, base, pos, attempts>>

NextIngest ==
    \E j \in Jobs :
        \/ RejectInput(j)
        \/ \E b \in JobBatches(j) : BuildBatch(j, b)
        \/ RequestCancel(j)
        \/ DiscardBatch(j)
        \/ BeginMerge(j)
        \/ RunStatement(j)
        \/ RetryMerge(j)
        \/ SurfaceFailure(j)
        \/ CommitMerge(j)

SpecIngest == Init /\ [][NextIngest]_vars

(***************************************************************************)
(* remove_source(source_id, project_id): the entries of the source leave   *)
(* the lists of the project's nodes, a node left with two empty lists is   *)
(* deleted together with its relationships.                                *)
(***************************************************************************)
\* the dicts whose serialisations the store can hold
Dicts == {DescOf(s) : s \in Sources} \cup {OrigOf(s) : s \in Sources}

\* json.loads of a stored entry
JsonLoads(str) == CHOOSE d \in Dicts : JsonDumps(d) = str

\* entry["source_id"]
SourceTag(str) ==
    LET its == JsonLoads(str).items
    IN its[CHOOSE i \in 1..Len(its) : its[i][1] = "source_id"][2]

TaggedWith(s, list) == \E i \in 1..Len(list) : SourceTag(list[i]) = s

\* a node that source s contributed to loses the entries of every source
StripSourceAll(n, s, b) ==
    IF n.brain_id # b THEN n
    ELSE IF TaggedWith(s, n.descriptions) \/ TaggedWith(s, n.original_sentences)
    THEN [n EXCEPT !.descriptions = <<>>, !.original_sentences = <<>>]
    ELSE n

StripSource(n, s, b) ==
    IF n.brain_id # b THEN n
    ELSE [n EXCEPT
            !.descriptions = SelectSeq(@, LAMBDA e : SourceTag(e) # s),
            !.original_sentences = SelectSeq(@, LAMBDA e : SourceTag(e) # s)]

Emptied(n, b) ==
    n.brain_id = b /\ n.descriptions = <<>> /\ n.original_sentences = <<>>

\* the emptied nodes are kept in the graph
RemoveKeepingNodes(G, s, b) ==
    [nodes |-> MapBag(G.nodes, LAMBDA n : StripSource(n, s, b)),
     edges |-> G.edges]

Remove(G, s, b) ==
    LET stripped == MapBag(G.nodes, LAMBDA n : StripSource(n, s, b))
        kept == FilterBag(stripped, LAMBDA n : ~Emptied(n, b))
    IN [nodes |-> kept,
        edges |-> FilterBag(G.edges, LAMBDA e :
                     e.brain_id # b
                     \/ (/\ \E n \in BagToSet(kept) : NodeMatches(n, e.source, b)
                         /\ \E n \in BagToSet(kept) : NodeMatches(n, e.target, b)))]

RemoveSource(s, b) ==
    /\ items < MaxItems
    /\ items' = items + 1
    /\ removals' = removals + 1
    /\ LET G == Remove(Graph, s, b) IN
        /\ nodes' = G.nodes
        /\ edges' = G.edges
    /\ UNCHANGED <<jobVars, pipeVars, frontVars>>

NextRemove ==
    \/ Next
    \/ \E s \in Sources, b \in Brains : RemoveSource(s, b)

SpecRemove == Init /\ [][NextRemove]_vars

(***************************************************************************)
(* grouping_into_smaller_chunks(chunk, similarity_matrix, threshold).      *)
(* Similarities and thresholds are fractions num/den with den > 0; a group *)
(* is a list of positions of the chunk, counted from 0 as range() does.    *)
(***************************************************************************)
Ratio(n, d) == [num |-> n, den |-> d]

\* a >= b; a fraction with den = 0 is not a number and compares as false
Geq(a, b) == a.den # 0 /\ b.den # 0 /\ a.num * b.den >= b.num * a.den

\* a < b
Less(a, b) == a.den # 0 /\ b.den # 0 /\ a.num * b.den < b.num * a.den

\* min(a, b): b if b < a, else a
MinOf(a, b) == IF Less(b, a) THEN b ELSE a

One == Ratio(10, 10)

\* adjacent similarities a document may show, and thresholds a call may get
Sims == {Ratio(3, 10), Ratio(7, 10)}

Thresholds == {Ratio(3, 10), Ratio(7, 10), Ratio(9, 10)}

\* the least similarity met on the way from sentence i to sentence j > i
RECURSIVE ChainMin(_, _, _)
ChainMin(adj, i, j) ==
    IF j = i + 1 THEN adj[j] ELSE MinOf(adj[j], ChainMin(adj, i, j - 1))

\* a symmetric matrix over sentences 0..n-1 with ones on the diagonal and
\* adj[i] between the neighbours i-1 and i
SimilarityMatrix(n, adj) ==
    [i \in 0..(n - 1) |->
        [j \in 0..(n - 1) |->
            IF i = j THEN One
            ELSE IF i < j THEN ChainMin(adj, i, j) ELSE ChainMin(adj, j, i)]]

\* list.sort() of a list of similarities
RECURSIVE InsertSorted(_, _)
InsertSorted(x, s) ==
    IF s = <<>> THEN <<x>>
    ELSE IF Geq(Head(s), x) THEN <<x>> \o s
    ELSE <<Head(s)>> \o InsertSorted(x, Tail(s))

RECURSIVE SortGaps(_)
SortGaps(s) == IF s = <<>> THEN <<>> ELSE InsertSorted(Head(s), SortGaps(Tail(s)))

\* gaps: the similarities of consecutive sentences of the chunk
Gaps(c, S) == [i \in 1..(Len(c) - 1) |-> S[c[i + 1]][c[i]]]

\* the clamp applies to chunks of more than this many sentences
ClampAbove == 10

\* gaps[8]: the 9th entry of the sorted list
ClampRank == 9

\* the threshold used as it was passed
PassedThreshold(c, S, t) == t

\* threshold = min(threshold, gaps[8]) when the chunk has more than 10 sentences
ClampedThreshold(c, S, t) ==
    IF Len(c) > ClampAbove THEN MinOf(t, SortGaps(Gaps(c, S))[ClampRank]) ELSE t

\* sim > threshold
ExceedsThreshold(sim, t) == ~Geq(t, sim)

\* sim >= threshold
MeetsThreshold(sim, t) == Geq(sim, t)

\* the inner loop: next_idx runs on from idx + 1 until the first break
RECURSIVE ExtendGroup(_, _, _, _, _, _)
ExtendGroup(c, S, t, new_chunk, next_idx, visited) ==
    IF next_idx >= Len(c) THEN [group |-> new_chunk, visited |-> visited]
    ELSE IF next_idx \in visited
    THEN ExtendGroup(c, S, t, new_chunk, next_idx + 1, visited)
    ELSE IF MeetsThreshold(S[c[next_idx + 1]][c[next_idx]], t)
    THEN ExtendGroup(c, S, t, Append(new_chunk, next_idx), next_idx + 1,
                     visited \cup {next_idx})
    ELSE [group |-> new_chunk, visited |-> visited]

\* the outer loop without its visited check: a group starts at every index
RECURSIVE SweepEveryIndex(_, _, _, _, _, _)
SweepEveryIndex(c, S, t, idx, visited, groups) ==
    IF idx >= Len(c) THEN groups
    ELSE LET g == ExtendGroup(c, S, t, <<idx>>, idx + 1, {idx})
         IN SweepEveryIndex(c, S, t, idx + 1, visited, Append(groups, g.group))

\* the outer loop: a group starts at every index not yet visited
RECURSIVE SweepFrom(_, _, _, _, _, _)
SweepFrom(c, S, t, idx, visited, groups) ==
    IF idx >= Len(c) THEN groups
    ELSE IF idx \in visited THEN SweepFrom(c, S, t, idx + 1, visited, groups)
    ELSE LET g == ExtendGroup(c, S, t, <<idx>>, idx + 1, visited \cup {idx})
         IN SweepFrom(c, S, t, idx + 1, g.visited, Append(groups, g.group))

GroupingIntoSmallerChunks(c, S, t) ==
    SweepFrom(c, S, ClampedThreshold(c, S, t), 0, {}, <<>>)

\* the sentences first..n-1 of a document, as the list of their indices
Run(first, n) == [i \in 1..(n - first) |-> first + i - 1]

\* a document of up to MaxSentences sentences is given with its similarity
\* matrix; the chunk is the document, with or without its first sentence
InitGroup ==
    /\ InitStore
    /\ InitFront
    /\ \E n \in 1..MaxSentences :
          /\ similarity_matrix \in {SimilarityMatrix(n, adj) : adj \in [1..(n - 1) -> Sims]}
          /\ chunk \in {Run(first, n) : first \in {0, 1} \cap 0..(n - 1)}
    /\ threshold \in Thresholds
    /\ new_chunk_groups = <<>>
    /\ NothingChunked
    /\ NothingSegmented

CallGrouping ==
    /\ new_chunk_groups = <<>>
    /\ new_chunk_groups' = GroupingIntoSmallerChunks(chunk, similarity_matrix, threshold)
    /\ UNCHANGED <<frontVars, graphVars, items, removals, jobVars, similarity_matrix, chunk,
                   threshold, chunkVars, segmentVars>>

NextGroup == CallGrouping

SpecGroup == InitGroup /\ [][NextGroup]_vars

(***************************************************************************)
(* recurrsive_chunking: the recursion is run as a list of pending calls,   *)
(* first call first; a call runs its body, emits its nodes and edges and   *)
(* puts the calls for its child chunks in front of the list, so that calls *)
(* are made, and nodes and edges emitted, in the order of the recursion.   *)
(***************************************************************************)
RECURSIVE Gcd(_, _)
Gcd(a, b) == IF b = 0 THEN a ELSE Gcd(b, a % b)

\* the same number as a fraction in lowest terms
Lowest(r) ==
    IF r.den = 0 THEN r
    ELSE Ratio(r.num \div Gcd(r.num, r.den), r.den \div Gcd(r.num, r.den))

\* the threshold passed on as it is
Unscaled(t) == t

\* threshold * 1.1
Scale(t) == Lowest(Ratio(t.num * 11, t.den * 10))

\* similarity_matrix[np.triu_indices_from(similarity_matrix, k=1)]
RECURSIVE UpperTriangle(_, _, _)
UpperTriangle(S, i, j) ==
    LET n == Cardinality(DOMAIN S) IN
    IF i >= n - 1 THEN <<>>
    ELSE IF j >= n THEN UpperTriangle(S, i + 1, i + 2)
    ELSE <<S[i][j]>> \o UpperTriangle(S, i, j + 1)

\* the k-th smallest entry of a list: fewer than k entries are below it
\* and at least k are not above it
KthSmallest(list, k) ==
    CHOOSE v \in ToSet(list) :
        /\ Cardinality({i \in 1..Len(list) : ~Geq(list[i], v)}) < k
        /\ Cardinality({i \in 1..Len(list) : Geq(v, list[i])}) >= k

\* np.quantile(flattened, 0.25): linear interpolation between the two
\* entries around position (m - 1) / 4 of the sorted list
Quantile25(flattened) ==
    LET m == Len(flattened)
        lo == ((m - 1) \div 4) + 1
        r == (m - 1) % 4
        x == KthSmallest(flattened, lo)
        y == IF r = 0 THEN x ELSE KthSmallest(flattened, lo + 1)
    IN Lowest(Ratio((4 - r) * x.num * y.den + r * y.num * x.den, 4 * x.den * y.den))

\* threshold = 0.5, the default after an exception
DefaultThreshold == Ratio(5, 10)

\* not a number: no similarity is >= it
NaN == Ratio(0, 0)

\* the threshold of depth 0; a one-sentence document has an empty upper
\* triangle, whose quantile is NaN or an exception, as numpy has it
RootThresholds(S) ==
    IF Cardinality(DOMAIN S) < 2 THEN {DefaultThreshold, NaN}
    ELSE {Quantile25(UpperTriangle(S, 0, 1))}

\* one noun phrase stands for the tokens of a sentence
PhraseNames == <<"a", "b", "c", "d", "e", "f", "g", "h", "i", "j", "k">>

Phrases == {"p", "q", "z"} \cup {PhraseNames[i] : i \in 1..Len(PhraseNames)}

\* top_keyword += "*"
Starred(p) == p \o "*"

\* keyword[:-1] if keyword[-1] == "*" else keyword
StripStar(name) ==
    IF \E p \in Phrases : name = Starred(p)
    THEN CHOOSE p \in Phrases : name = Starred(p)
    ELSE name

\* the tokens of the sentences 0..n-1 of a document: one phrase throughout,
\* two phrases in turn, or one phrase per half
TokenLists(n) ==
    { [i \in 0..(n - 1) |-> "p"],
      [i \in 0..(n - 1) |-> IF i % 2 = 0 THEN "p" ELSE "q"],
      [i \in 0..(n - 1) |-> IF 2 * i < n THEN "q" ELSE "p"] }

\* phrases of the sentences of chunk c, in the order of their first sentence
RECURSIVE PhrasesOf(_, _)
PhrasesOf(c, seen) ==
    IF c = <<>> THEN <<>>
    ELSE IF tokens[Head(c)] \in seen THEN PhrasesOf(Tail(c), seen)
    ELSE <<tokens[Head(c)]>> \o PhrasesOf(Tail(c), seen \cup {tokens[Head(c)]})

Occurrences(c, p) == Cardinality({k \in 1..Len(c) : tokens[c[k]] = p})

\* the representative keyword of a group: its most frequent phrase, the
\* earlier one of two that are equally frequent
KeywordOf(c) ==
    LET ps == PhrasesOf(c, {}) IN
    ps[CHOOSE i \in 1..Len(ps) :
          \A j \in 1..Len(ps) :
              \/ Occurrences(c, ps[i]) > Occurrences(c, ps[j])
              \/ Occurrences(c, ps[i]) = Occurrences(c, ps[j]) /\ i <= j]

\* sentences below which a chunk is dropped
MinSentences == 3


\* check_termination_condition without its depth limit
TerminationFlagsAnyDepth(frame) ==
    IF Len(frame.chunk) <= MinSentences THEN {1} ELSE {1, 2, 3, -1}

\* check_termination_condition(chunk, depth): 1 drops the chunk, 2 makes it
\* final, 3 hands it to nonrecurrsive_chunking, -1 goes on splitting
TerminationFlags(frame) ==
    IF Len(frame.chunk) <= MinSentences THEN {1}
    ELSE IF frame.depth >= MaxDepth THEN {1, 2, 3}
    ELSE {1, 2, 3, -1}

\* nonrecurrsive_chunking(chunk, similarity_matrix, top_keyword): the chunk
\* in two flat halves under top_keyword
NonRecursive(frame) ==
    LET half == (Len(frame.chunk) + 1) \div 2 IN
    << [chunks |-> SubSeq(frame.chunk, 1, half), keyword |-> frame.top_keyword],
       [chunks |-> SubSeq(frame.chunk, half + 1, Len(frame.chunk)),
        keyword |-> frame.top_keyword] >>

\* the sentences of the chunk at the positions of each group
GoChunk(c, groups) ==
    [g \in 1..Len(groups) |-> [k \in 1..Len(groups[g]) |-> c[groups[g][k] + 1]]]

\* a node is made whether or not the name has one
MadeAnyway(name, made) == TRUE

\* name not in already_made
NotMade(name, made) == ~InSeq(name, made)

NodeItem(name, role) == [name |-> name, role |-> role]

EdgeItem(s, t, by) == [source |-> s, target |-> t, by |-> by]

\* gen_node_edges_for_new_groups: a hierarchy node per keyword not yet in
\* already_made and a hierarchy edge top_keyword -> keyword per group
RECURSIVE HierarchyEmit(_, _, _)
HierarchyEmit(top_keyword, keywords, acc) ==
    IF keywords = <<>> THEN acc
    ELSE LET kw == Head(keywords)
             fresh == NotMade(kw, acc.already_made)
         IN HierarchyEmit(top_keyword, Tail(keywords),
              [nodes |-> IF fresh THEN Append(acc.nodes, NodeItem(kw, "hierarchy"))
                         ELSE acc.nodes,
               edges |-> Append(acc.edges, EdgeItem(top_keyword, kw, "chunker")),
               already_made |-> IF fresh THEN Append(acc.already_made, kw)
                                ELSE acc.already_made])

Frame(c, depth, top_keyword, t) ==
    [chunk |-> c, depth |-> depth, top_keyword |-> top_keyword, threshold |-> t]

Smaller(a, b) == IF a < b THEN a ELSE b

\* lines 266-287 for one call: the groups, their keywords (got of them), the
\* nodes and edges of this step and the calls for the child chunks
SplitChunk(frame, made, got) ==
    LET groups == GroupingIntoSmallerChunks(frame.chunk, similarity_matrix,
                                            frame.threshold)
        go_chunk == GoChunk(frame.chunk, groups)
        keywords == [g \in 1..Smaller(got, Len(go_chunk)) |-> KeywordOf(go_chunk[g])]
        emit == HierarchyEmit(frame.top_keyword, keywords,
                    [nodes |-> <<>>, edges |-> <<>>, already_made |-> made])
    IN [go_chunk |-> go_chunk,
        nodes |-> emit.nodes,
        edges |-> emit.edges,
        already_made |-> emit.already_made,
        calls |-> [i \in 1..Len(keywords) |->
                      Frame(go_chunk[i], frame.depth + 1, keywords[i],
                            Scale(frame.threshold))]]

\* make_edges(sentences, source, targets, phrase_info): an edge per target
MakeEdges(source, targets) ==
    [i \in 1..Len(targets) |-> EdgeItem(source, targets[i], "builder")]

\* group_phrases keeps at most this many related keywords of a node in view
RelatedLimit == 5

\* nodes for this many top keywords of a chunk at most
TopLimit == 5

\* lines 354-361: child nodes for the keywords related to t
RECURSIVE RelatedNodes(_, _, _, _, _, _)
RelatedNodes(phrases, t, idx, limit, related, acc) ==
    IF idx >= limit THEN acc
    ELSE IF ~NotMade(phrases[idx + 1], acc.already_made)
    THEN RelatedNodes(phrases, t, idx + 1, limit, related, acc)
    ELSE LET now == Append(related, phrases[idx + 1]) IN
         RelatedNodes(phrases, t, idx + 1, limit, now,
            [acc EXCEPT !.already_made = Append(@, phrases[idx + 1]),
                        !.nodes = Append(@, NodeItem(phrases[idx + 1], "child")),
                        !.edges = @ \o MakeEdges(t, now)])

\* the loop goes on whatever cnt is
NeverEnough(cnt) == FALSE

\* if cnt==5: break
Enough(cnt) == cnt = TopLimit

\* every name counts as a phrase of the chunk
AnyContents(find, phrases) == TRUE

\* find in contents
InContents(find, phrases) == InSeq(find, phrases)

\* lines 339-364: the loop over the keywords sorted by score
RECURSIVE TopKeywords(_, _, _, _, _)
TopKeywords(phrases, groups, keyword, todo, acc) ==
    IF todo = <<>> \/ keyword = "" THEN acc
    ELSE LET t == Head(todo)
             linked == [acc EXCEPT !.edges = @ \o MakeEdges(keyword, <<t>>)]
             made == IF ~NotMade(t, linked.already_made) THEN linked
                     ELSE [linked EXCEPT !.nodes = Append(@, NodeItem(t, "phrase")),
                                         !.already_made = Append(@, t),
                                         !.cnt = @ + 1]
             after == IF NotMade(t, linked.already_made) /\ t \in DOMAIN groups
                      THEN RelatedNodes(phrases, t, 0,
                               Smaller(Len(groups[t]), RelatedLimit), <<>>, made)
                      ELSE made
         IN IF Enough(after.cnt) THEN after
            ELSE TopKeywords(phrases, groups, keyword, Tail(todo), after)

\* _extract_from_chunk for a final chunk whose sentences hold the given
\* phrases, scored into sorted_keywords and grouped into groups
ExtractFromChunk(phrases, sorted_keywords, groups, keyword, made) ==
    LET find == StripStar(keyword)
        start == [nodes |-> IF keyword # "" THEN <<NodeItem(keyword, "parent")>>
                            ELSE <<>>,
                  edges |-> <<>>, already_made |-> made, cnt |-> 0]
    IN IF keyword # "" /\ ~InContents(find, phrases)
       THEN [nodes |-> <<>>, edges |-> <<>>, already_made |-> made]
       ELSE LET r == TopKeywords(phrases, groups, keyword, sorted_keywords, start)
            IN [nodes |-> r.nodes, edges |-> r.edges, already_made |-> r.already_made]

\* every order of the phrases of a chunk: the scores may rank them any way
Orders(phrases) ==
    {o \in [1..Len(phrases) -> {phrases[i] : i \in 1..Len(phrases)}] :
        \A i, j \in 1..Len(phrases) : i # j => o[i] # o[j]}

\* group_phrases: each phrase of grouped has the other phrases as its group
GroupsOf(phrases, grouped) ==
    [t \in grouped |-> SelectSeq(phrases, LAMBDA p : p # t)]

\* what the builder emitted goes behind what the job has emitted so far
CollectBefore(stream, r) ==
    [nodes |-> r.nodes \o stream.nodes, edges |-> r.edges \o stream.edges]

Collect(stream, r) ==
    [nodes |-> stream.nodes \o r.nodes, edges |-> stream.edges \o r.edges]

\* adjacent similarities of a document long enough for the clamp: all low
\* but one
LongAdjacencies ==
    { [i \in 1..ClampAbove |-> IF i = k THEN Ratio(7, 10) ELSE Ratio(3, 10)] :
        k \in {1, ClampAbove} }

\* a document of up to MaxDocument sentences, or one long enough for the
\* clamp, tokenized, with the similarity matrix its topic vectors will give
InitChunk ==
    /\ InitStore
    /\ InitFront
    /\ chunk = <<>>
    /\ threshold = [num |-> 0, den |-> 1]
    /\ new_chunk_groups = <<>>
    /\ \/ \E n \in 1..MaxDocument :
             /\ similarity_matrix \in
                   {SimilarityMatrix(n, adj) : adj \in [1..(n - 1) -> Sims]}
             /\ tokens \in TokenLists(n)
       \/ /\ similarity_matrix \in
                {SimilarityMatrix(ClampAbove + 1, adj) : adj \in LongAdjacencies}
          /\ tokens \in TokenLists(ClampAbove + 1)
    /\ stack = <<>>
    /\ already_made = <<>>
    /\ nodes_and_edges = [nodes |-> <<>>, edges |-> <<>>]
    /\ final_chunks = <<>>
    /\ built = 0
    /\ phase = "start"
    /\ NothingSegmented

\* the whole document as the chunk of depth 0
Document == Run(0, Cardinality(DOMAIN tokens))

\* lda_keyword_and_similarity, lines 481-491 and the call at line 214: a fit
\* that fails raises out of the except branch; a fit that succeeds gives the
\* keyword and the matrix of the sentences
LdaKeywordAndSimilarity(fit, top_keyword) ==
    IF fit = "fails"
    THEN [raised |-> TRUE, top_keyword |-> "", similarity_matrix |-> <<>>]
    ELSE [raised |-> FALSE, top_keyword |-> top_keyword,
          similarity_matrix |-> similarity_matrix]

\* recurrsive_chunking at depth 0, lines 211-239: the topic model is fitted,
\* the root node is made and the first threshold computed; an empty matrix
\* returns [], {}, []
ChunkRoot(fit, top_keyword, t) ==
    /\ phase = "start"
    /\ LET lda == LdaKeywordAndSimilarity(fit, top_keyword) IN
       IF lda.raised
       THEN /\ phase' = "raised"
            /\ UNCHANGED <<stack, already_made, nodes_and_edges>>
       ELSE IF Cardinality(DOMAIN lda.similarity_matrix) = 0
       THEN /\ phase' = "aborted"
            /\ UNCHANGED <<stack, already_made, nodes_and_edges>>
       ELSE /\ phase' = "chunking"
            /\ already_made' = <<lda.top_keyword>>
            /\ nodes_and_edges' =
                  [nodes |-> <<NodeItem(Starred(lda.top_keyword), "root")>>,
                   edges |-> <<>>]
            /\ stack' = <<Frame(Document, 0, Starred(lda.top_keyword), t)>>
    /\ UNCHANGED <<frontVars, graphVars, items, removals, jobVars, similarity_matrix, groupVars,
                   segmentVars, tokens, final_chunks, built>>

PhaseAfter(calls, finals) ==
    IF calls # <<>> THEN "chunking"
    ELSE IF finals # <<>> THEN "extracting" ELSE "done"

\* the older excerpt of lines 241-263: every flag but -1 records the chunk
FinalizedUnlessSplit(flag, frame) ==
    IF flag = 3 THEN NonRecursive(frame)
    ELSE IF flag = -1 THEN <<>>
    ELSE <<[chunks |-> frame.chunk, keyword |-> frame.top_keyword]>>

\* what a call at depth > 0 adds to result, lines 241-263: flag 3 the chunks
\* of nonrecurrsive_chunking, flag 1 nothing, flag 2 the chunk itself
Finalized(flag, frame) ==
    IF flag = 3 THEN NonRecursive(frame)
    ELSE IF flag = 1 \/ flag = -1 THEN <<>>
    ELSE <<[chunks |-> frame.chunk, keyword |-> frame.top_keyword]>>

\* one call of recurrsive_chunking, lines 241-287, up to its recursive calls,
\* which wait on the stack in the order they will be made
ChunkCall(flag, missing) ==
    /\ phase = "chunking"
    /\ LET frame == Head(stack)
           s == SplitChunk(frame, already_made, Len(GroupingIntoSmallerChunks(
                    frame.chunk, similarity_matrix, frame.threshold)) - missing)
       IN /\ stack' = IF flag = -1 THEN s.calls \o Tail(stack) ELSE Tail(stack)
          /\ final_chunks' = final_chunks \o Finalized(flag, frame)
          /\ nodes_and_edges' = IF flag = -1 THEN Collect(nodes_and_edges, s)
                                ELSE nodes_and_edges
          /\ already_made' = IF flag = -1 THEN s.already_made ELSE already_made
    /\ phase' = PhaseAfter(stack', final_chunks')
    /\ UNCHANGED <<frontVars, graphVars, items, removals, jobVars, similarity_matrix, groupVars,
                   segmentVars, tokens, built>>

\* the orchestrator hands the next final chunk to _extract_from_chunk
BuildChunkGraph(sorted_keywords, grouped) ==
    /\ phase = "extracting"
    /\ LET f == final_chunks[built + 1]
           r == ExtractFromChunk(PhrasesOf(f.chunks, {}), sorted_keywords,
                    GroupsOf(PhrasesOf(f.chunks, {}), grouped), f.keyword, already_made)
       IN /\ nodes_and_edges' = Collect(nodes_and_edges, r)
          /\ already_made' = r.already_made
    /\ built' = built + 1
    /\ phase' = IF built' = Len(final_chunks) THEN "done" ELSE "extracting"
    /\ UNCHANGED <<frontVars, graphVars, items, removals, jobVars, similarity_matrix, groupVars,
                   segmentVars, tokens, stack, final_chunks>>

NextChunk ==
    \/ \E fit \in {"fitted", "fails"}, kw \in {tokens[i] : i \in DOMAIN tokens},
          t \in RootThresholds(similarity_matrix) :
          ChunkRoot(fit, kw, t)
    \/ /\ phase = "chunking"
       /\ \E flag \in (IF Head(stack).depth = 0 THEN {-1}
                       ELSE TerminationFlags(Head(stack))) :
             \E missing \in (IF flag = -1 THEN {0, 1} ELSE {0}) :
                ChunkCall(flag, missing)
    \/ /\ phase = "extracting"
       /\ LET ps == PhrasesOf(final_chunks[built + 1].chunks, {}) IN
          \E o \in Orders(ps), grouped \in SUBSET {ps[i] : i \in 1..Len(ps)} :
             BuildChunkGraph(o, grouped)

SpecChunk == InitChunk /\ [][NextChunk]_vars

\* the same job, for the properties of the single calls of the recursion
SpecChunkCalls == InitChunk /\ [][NextChunk]_vars

(***************************************************************************)
(* _extract_from_chunk on its own: one final chunk of up to MaxPhrases     *)
(* sentences, each with a phrase of its own, is handed to the builder with *)
(* a parent keyword and the names made so far.                             *)
(***************************************************************************)
\* parent keywords: none, a name that is no phrase of the chunk, a phrase
ParentKeywords == {"", "z", Starred("z"), "a", Starred("a")}

\* names made before the builder is called
MadeBefore == {<<>>, <<"a">>, <<"a", "c">>}

InitBuild ==
    /\ InitStore
    /\ InitFront
    /\ similarity_matrix = <<>>
    /\ chunk = <<>>
    /\ threshold = [num |-> 0, den |-> 1]
    /\ new_chunk_groups = <<>>
    /\ \E n \in 1..MaxPhrases :
          /\ tokens = [i \in 0..(n - 1) |-> PhraseNames[i + 1]]
          /\ \E keyword \in ParentKeywords :
                final_chunks = <<[chunks |-> Run(0, n), keyword |-> keyword]>>
    /\ already_made \in MadeBefore
    /\ stack = <<>>
    /\ nodes_and_edges = [nodes |-> <<>>, edges |-> <<>>]
    /\ built = 0
    /\ phase = "extracting"
    /\ NothingSegmented

\* rankings the scores may give: the phrases from the k-th on, then the rest
Rotations(phrases) ==
    {[i \in 1..Len(phrases) |-> phrases[((i + k - 1) % Len(phrases)) + 1]] :
        k \in 0..(Len(phrases) - 1)}

NextBuild ==
    /\ phase = "extracting"
    /\ LET ps == PhrasesOf(final_chunks[built + 1].chunks, {}) IN
       \E o \in Rotations(ps) :
          \E grouped \in {{}, {o[1]}, {ps[i] : i \in 1..Len(ps)}} :
             BuildChunkGraph(o, grouped)

SpecBuild == InitBuild /\ [][NextBuild]_vars

(***************************************************************************)
(* split_into_tokenized_sentence(text).  A text is a list of atoms: "W" a  *)
(* word of 26 letters, "V" its first 25 letters, "x" one letter, " ", "."  *)
(* and the newline "\n"; a sentence is a list of atoms too.                *)
(***************************************************************************)
Atoms == {"W", "x", " ", ".", "\n"}

\* characters of an atom
Width(a) == IF a = "W" THEN 26 ELSE IF a = "V" THEN 25 ELSE 1

\* characters of an atom that are letters or digits
RealChars(a) == IF a \in {"W", "V", "x"} THEN Width(a) ELSE 0

\* \s
IsSpace(a) == a \in {" ", "\n"}

\* a line of up to this many characters ends at its newline
ShortLine == 25

RECURSIVE CharLen(_)
CharLen(s) == IF s = <<>> THEN 0 ELSE Width(Head(s)) + CharLen(Tail(s))

RECURSIVE RealLen(_)
RealLen(s) == IF s = <<>> THEN 0 ELSE RealChars(Head(s)) + RealLen(Tail(s))

RECURSIVE LeftStrip(_)
LeftStrip(s) ==
    IF s # <<>> /\ IsSpace(Head(s)) THEN LeftStrip(Tail(s)) ELSE s

RECURSIVE RightStrip(_)
RightStrip(s) ==
    IF s # <<>> /\ IsSpace(s[Len(s)]) THEN RightStrip(SubSeq(s, 1, Len(s) - 1))
    ELSE s

\* str.strip()
Strip(s) == RightStrip(LeftStrip(s))

\* len(stripped_line) <= 25
EndsLine(stripped_line) == CharLen(stripped_line) <= ShortLine

\* step 1: the loop over the blocks of re.split(r'(\n)', cleaned_text) and
\* the last line after it
RECURSIVE MergedLines(_, _, _)
MergedLines(todo, current_line, merged_lines) ==
    IF todo = <<>>
    THEN IF Strip(current_line) # <<>>
         THEN Append(merged_lines, Strip(current_line))
         ELSE merged_lines
    ELSE IF Head(todo) # "\n"
    THEN MergedLines(Tail(todo), Append(current_line, Head(todo)), merged_lines)
    ELSE IF Strip(current_line) = <<>>
    THEN MergedLines(Tail(todo), <<>>, merged_lines)
    ELSE IF EndsLine(Strip(current_line))
    THEN MergedLines(Tail(todo), <<>>, Append(merged_lines, Strip(current_line)))
    ELSE MergedLines(Tail(todo), Append(current_line, " "), merged_lines)

\* the end of the run of whitespace that starts at position i
RECURSIVE SpaceEnd(_, _)
SpaceEnd(s, i) == IF i <= Len(s) /\ IsSpace(s[i]) THEN SpaceEnd(s, i + 1) ELSE i

\* re.split(intra_line_pattern, line): of the three alternatives only
\* (?<=[.!?])\s+ can match a text of these atoms, at the whitespace that
\* follows a "."
RECURSIVE IntraLineSplit(_, _, _, _)
IntraLineSplit(line, i, current, out) ==
    IF i > Len(line) THEN Append(out, current)
    ELSE IF IsSpace(line[i]) /\ i > 1 /\ line[i - 1] = "."
    THEN IntraLineSplit(line, SpaceEnd(line, i), <<>>, Append(out, current))
    ELSE IntraLineSplit(line, i + 1, Append(current, line[i]), out)

\* step 2: candidate_sentences
RECURSIVE CandidateSentences(_)
CandidateSentences(merged_lines) ==
    IF merged_lines = <<>> THEN <<>>
    ELSE IntraLineSplit(Head(merged_lines), 1, <<>>, <<>>)
            \o CandidateSentences(Tail(merged_lines))

\* re.split(list_marker_split_pattern, s): a split in front of a letter that
\* is followed by "." and whitespace
RECURSIVE ListMarkerSplit(_, _, _, _)
ListMarkerSplit(s, i, current, out) ==
    IF i > Len(s) THEN Append(out, current)
    ELSE IF /\ i + 2 <= Len(s)
            /\ s[i] \in {"x", "W"}
            /\ s[i + 1] = "."
            /\ IsSpace(s[i + 2])
    THEN ListMarkerSplit(s, i + 1, <<"x">>,
            Append(out, IF s[i] = "W" THEN Append(current, "V") ELSE current))
    ELSE ListMarkerSplit(s, i + 1, Append(current, s[i]), out)

\* re.sub(list_marker_pattern_for_removal, '', fragment): whitespace, one
\* letter and "." are taken out
RECURSIVE RemoveListMarkers(_, _)
RemoveListMarkers(fragment, i) ==
    IF i > Len(fragment) THEN <<>>
    ELSE IF ~IsSpace(fragment[i])
    THEN <<fragment[i]>> \o RemoveListMarkers(fragment, i + 1)
    ELSE LET j == SpaceEnd(fragment, i) IN
         IF j + 1 <= Len(fragment) /\ fragment[j] = "x" /\ fragment[j + 1] = "."
         THEN RemoveListMarkers(fragment, j + 2)
         ELSE SubSeq(fragment, i, j - 1) \o RemoveListMarkers(fragment, j)

\* the fragment as it would be appended to final_sentences
Cleaned(fragment) == Strip(RemoveListMarkers(Strip(fragment), 1))

\* len(fragment) <= 1 or len(real_chars) <= 1
TooShort(fragment) == CharLen(fragment) <= 1 \/ RealLen(fragment) <= 1

\* the inner loop of step 3, over the fragments of one candidate
RECURSIVE KeptFragments(_)
KeptFragments(sub_fragments) ==
    IF sub_fragments = <<>> THEN <<>>
    ELSE (IF Cleaned(Head(sub_fragments)) = <<>> \/ TooShort(Cleaned(Head(sub_fragments)))
          THEN <<>> ELSE <<Cleaned(Head(sub_fragments))>>)
            \o KeptFragments(Tail(sub_fragments))

\* step 3, over the candidates
RECURSIVE FinalSentences(_)
FinalSentences(candidate_sentences) ==
    IF candidate_sentences = <<>> THEN <<>>
    ELSE (IF Strip(Head(candidate_sentences)) = <<>> THEN <<>>
          ELSE KeptFragments(ListMarkerSplit(Strip(Head(candidate_sentences)),
                                             1, <<>>, <<>>)))
            \o FinalSentences(Tail(candidate_sentences))

\* final_sentences of split_into_tokenized_sentence(text)
SplitIntoTokenizedSentence(t) ==
    IF Strip(t) = <<>> THEN <<>>
    ELSE FinalSentences(CandidateSentences(MergedLines(Strip(t), <<>>, <<>>)))

\* "\n".join(sentences)
RECURSIVE NewlineJoin(_)
NewlineJoin(sentences) ==
    IF sentences = <<>> THEN <<>>
    ELSE IF Len(sentences) = 1 THEN Head(sentences)
    ELSE Head(sentences) \o <<"\n">> \o NewlineJoin(Tail(sentences))

\* a text of up to MaxText atoms is given
InitSegment ==
    /\ InitStore
    /\ InitFront
    /\ similarity_matrix = <<>>
    /\ chunk = <<>>
    /\ threshold = [num |-> 0, den |-> 1]
    /\ new_chunk_groups = <<>>
    /\ NothingChunked
    /\ \E n \in 0..MaxText : text \in [1..n -> Atoms]
    /\ final_sentences = <<>>
    /\ resegmented = <<>>
    /\ runs = 0

\* the text is segmented
Segment ==
    /\ runs = 0
    /\ final_sentences' = SplitIntoTokenizedSentence(text)
    /\ runs' = 1
    /\ UNCHANGED <<frontVars, graphVars, items, removals, jobVars, similarity_matrix, groupVars,
                   chunkVars, text, resegmented>>

\* the sentences, joined by newlines, are segmented again
SegmentAgain ==
    /\ runs = 1
    /\ resegmented' = SplitIntoTokenizedSentence(NewlineJoin(final_sentences))
    /\ runs' = 2
    /\ UNCHANGED <<frontVars, graphVars, items, removals, jobVars, similarity_matrix, groupVars,
                   chunkVars, text, final_sentences>>

NextSegment == Segment \/ SegmentAgain

SpecSegment == InitSegment /\ [][NextSegment]_vars

(***************************************************************************)
(* The upload queue of the file list (FileView) and the file selection of  *)
(* the source panel (SourcePanel).  A state setter enqueues an update; a   *)
(* render applies the updates enqueued so far, in order, and the effects   *)
(* whose dependencies changed run after it, in the order of the component. *)
(***************************************************************************)
\* files the user can pick: the same file in two folders, another file, and
\* a file of a type that is not supported
FileObjs ==
    << [path |-> "d1", name |-> "a", ext |-> "pdf", size |-> 1],
       [path |-> "d2", name |-> "a", ext |-> "pdf", size |-> 1],
       [path |-> "d1", name |-> "b", ext |-> "txt", size |-> 2],
       [path |-> "d1", name |-> "c", ext |-> "exe", size |-> 3] >>

\* the files at the indices in chosen, in the order of the file dialog
PickOf(chosen) ==
    LET index == SelectSeq([i \in 1..Len(FileObjs) |-> i], LAMBDA i : i \in chosen)
    IN [k \in 1..Len(index) |-> FileObjs[index[k]]]

\* what one selection can hold: some of the files, no file twice
Picks == {PickOf(chosen) : chosen \in SUBSET (1..Len(FileObjs)) \ {{}}}

\* selections of a session in which every upload is followed to its end
FairPicks == {PickOf({1, 2}), PickOf({3}), PickOf({4})}

Supported == {"pdf", "txt", "memo", "md", "docx"}

\* `${f.name}-${f.size || 0}-${ext}`
UploadKey(f) == <<f.name, f.size, f.ext>>

\* the item pushed for file f by the n-th selection
UploadItem(f, n) ==
    [key |-> UploadKey(f), filetype |-> f.ext, fileObj |-> f, selection |-> n]

Update(op, value, threw) == [op |-> op, value |-> value, threw |-> threw]

\* SourcePanel.processSelectedFiles(fileObjs)
ProcessSelectedFiles(fileObjs) ==
    /\ selections < MaxSelections
    /\ selections' = selections + 1
    /\ LET picked == SelectSeq(fileObjs, LAMBDA f : f.ext \in Supported)
           uploadItems == [i \in 1..Len(picked) |-> UploadItem(picked[i], selections')]
       IN updates' = IF Len(uploadItems) > 0
                     THEN Append(updates, Update("external", uploadItems, FALSE))
                     ELSE updates
    /\ UNCHANGED <<externalUploadQueue, uploadQueue, isProcessing, effects, uploading,
                   enqueued, handled>>
    /\ UNCHANGED <<graphVars, items, removals, jobVars, pipeVars, memoVars>>

\* onFileUploaded is called after every removal
NotifyAlways(newQueue) == TRUE

\* newQueue.length === 0 && typeof onFileUploaded === "function"
Notify(newQueue) == Len(newQueue) = 0

\* one enqueued update applied to the state st of the components
Applied(st, u) ==
    IF u.op = "external"
    THEN [st EXCEPT !.externalUploadQueue = u.value,
                    !.changed = @ \cup {"externalUploadQueue"}]
    ELSE IF u.op = "merge"
    THEN LET newItems ==
                SelectSeq(u.value,
                    LAMBDA item : \A i \in 1..Len(st.uploadQueue) :
                                     st.uploadQueue[i].key # item.key)
         IN [st EXCEPT !.uploadQueue = @ \o newItems,
                       !.enqueued = @ \o newItems,
                       !.changed = @ \cup {"uploadQueue"}]
    ELSE IF u.op = "slice"
    THEN LET newQueue == SubSeq(st.uploadQueue, 2, Len(st.uploadQueue))
         IN [st EXCEPT !.uploadQueue = newQueue,
                       !.handled = Append(@, [file |-> u.value,
                                              removed |-> SubSeq(st.uploadQueue, 1, 1),
                                              threw |-> u.threw,
                                              left |-> Len(newQueue),
                                              notified |-> Notify(newQueue)]),
                       !.changed = @ \cup {"uploadQueue"}]
    ELSE [st EXCEPT !.isProcessing = u.value]

RECURSIVE Rendered(_, _)
Rendered(st, us) ==
    IF us = <<>> THEN st ELSE Rendered(Applied(st, Head(us)), Tail(us))

\* a render of the components: the updates enqueued so far are applied and
\* the effects whose dependencies changed are scheduled
Render ==
    /\ updates # <<>>
    /\ effects = {}
    /\ LET st == Rendered([externalUploadQueue |-> externalUploadQueue,
                           uploadQueue |-> uploadQueue,
                           isProcessing |-> isProcessing,
                           enqueued |-> enqueued,
                           handled |-> handled,
                           changed |-> {}], updates)
       IN /\ externalUploadQueue' = st.externalUploadQueue
          /\ uploadQueue' = st.uploadQueue
          /\ isProcessing' = st.isProcessing
          /\ enqueued' = st.enqueued
          /\ handled' = st.handled
          /\ effects' =
                (IF "externalUploadQueue" \in st.changed THEN {"external"} ELSE {})
                \cup (IF "uploadQueue" \in st.changed \/ st.isProcessing # isProcessing
                      THEN {"queue"} ELSE {})
    /\ updates' = <<>>
    /\ UNCHANGED <<uploading, selections>>
    /\ UNCHANGED <<graphVars, items, removals, jobVars, pipeVars, memoVars>>

\* FileView, lines 304-316: the effect on externalUploadQueue
EffectExternal ==
    /\ "external" \in effects
    /\ effects' = effects \ {"external"}
    /\ updates' = IF Len(externalUploadQueue) > 0
                  THEN updates \o <<Update("merge", externalUploadQueue, FALSE),
                                    Update("external", <<>>, FALSE)>>
                  ELSE updates
    /\ UNCHANGED <<externalUploadQueue, uploadQueue, isProcessing, uploading, enqueued,
                   handled, selections>>
    /\ UNCHANGED <<graphVars, items, removals, jobVars, pipeVars, memoVars>>

\* a conversion is started whether or not one is running
MayStartAnyway(queue, processing) == Len(queue) > 0

\* uploadQueue.length > 0 && !isProcessing
MayStart(queue, processing) == Len(queue) > 0 /\ ~processing

\* FileView, lines 420-424 and 366-369: the effect on uploadQueue and
\* isProcessing calls processNextInQueue, which runs up to its first await
EffectQueue ==
    /\ "queue" \in effects
    /\ "external" \notin effects
    /\ effects' = effects \ {"queue"}
    /\ IF MayStart(uploadQueue, isProcessing)
       THEN /\ updates' = Append(updates, Update("processing", TRUE, FALSE))
            /\ uploading' = Append(uploading, uploadQueue[1])
       ELSE UNCHANGED <<updates, uploading>>
    /\ UNCHANGED <<externalUploadQueue, uploadQueue, isProcessing, enqueued, handled,
                   selections>>
    /\ UNCHANGED <<graphVars, items, removals, jobVars, pipeVars, memoVars>>

\* the item stays in the queue when the upload threw
OnlyOnSuccess(file, threw) ==
    IF threw THEN <<>>
    ELSE <<Update("slice", file, threw), Update("processing", FALSE, FALSE)>>

\* the finally block of processNextInQueue, lines 401-412
Finally(file, threw) ==
    <<Update("slice", file, threw), Update("processing", FALSE, FALSE)>>

\* processNextInQueue from its await on, lines 370-413: the upload and the
\* conversion of the i-th running call return or throw
Settle(i, threw) ==
    /\ i \in 1..Len(uploading)
    /\ uploading' = SubSeq(uploading, 1, i - 1) \o SubSeq(uploading, i + 1, Len(uploading))
    /\ updates' = updates \o Finally(uploading[i], threw)
    /\ UNCHANGED <<externalUploadQueue, uploadQueue, isProcessing, effects, enqueued,
                   handled, selections>>
    /\ UNCHANGED <<graphVars, items, removals, jobVars, pipeVars, memoVars>>

Settles == \E i \in 1..Len(uploading), threw \in BOOLEAN : Settle(i, threw)

NextUpload ==
    \/ \E fileObjs \in Picks : ProcessSelectedFiles(fileObjs)
    \/ Render
    \/ EffectExternal
    \/ EffectQueue
    \/ Settles

SpecUpload == Init /\ [][NextUpload]_vars

NextUploadFair ==
    \/ \E fileObjs \in FairPicks : ProcessSelectedFiles(fileObjs)
    \/ Render
    \/ EffectExternal
    \/ EffectQueue
    \/ Settles

\* renders and effects are run by the scheduler of the framework; every
\* call to the backend returns or throws
SpecUploadFair ==
    /\ Init
    /\ [][NextUploadFair]_vars
    /\ WF_vars(Render)
    /\ WF_vars(EffectExternal)
    /\ WF_vars(EffectQueue)
    /\ WF_vars(Settles)

(***************************************************************************)
(* The memo panel (InsightPanel, MemoListPanel): soft delete, restore,     *)
(* hard delete and emptying of the bin.  A handler calls the backend and,  *)
(* when the call returns, updates memos; when it throws, it only logs.     *)
(***************************************************************************)
\* a memo as getMemosByBrain gives it; is_deleted is true, false or null
Memo(id, is_deleted, is_source) ==
    [memo_id |-> id, is_deleted |-> is_deleted, is_source |-> is_source]

\* what the backend can give for one memo of the project: nothing, or the
\* memo, deleted or not, a source or not
LoadedMemo(id) ==
    {<<>>} \cup {<<Memo(id, d, src)>> : d \in {"true", "false", "null"}, src \in BOOLEAN}

\* the lists of memos the backend can give for the first n memos
RECURSIVE LoadedMemos(_)
LoadedMemos(n) ==
    IF n = 0 THEN {<<>>}
    ELSE {a \o b : a \in LoadedMemos(n - 1), b \in LoadedMemo(MemoNames[n])}

\* the useEffect on projectId has loaded the memos of the project
InitMemo ==
    /\ InitStore
    /\ InitPipe
    /\ NothingUploaded
    /\ memos \in LoadedMemos(MaxMemos)
    /\ requests = {}
    /\ last_done = [id \in MemoIds |->
                      IF \E i \in 1..Len(memos) :
                            memos[i].memo_id = id /\ memos[i].is_deleted = "true"
                      THEN "delete" ELSE "none"]
    /\ responded = "none"

\* MemoListPanel, lines 60-66: the filter of the normal list
InNormalFilter(memo) ==
    /\ memo.is_deleted \in {"false", "null"}
    /\ ~memo.is_source

\* MemoListPanel, lines 53-69: displayedMemos
DisplayedMemos(list, showTrash) ==
    SelectSeq(list, LAMBDA memo : IF showTrash THEN memo.is_deleted = "true"
                                  ELSE InNormalFilter(memo))

\* a handler of InsightPanel is called from the view that offers it and
\* waits for the backend
CallBackend(op, id) ==
    /\ Cardinality(requests) < MaxCalls
    /\ IF op = "delete" THEN \E i \in 1..Len(DisplayedMemos(memos, FALSE)) :
                                DisplayedMemos(memos, FALSE)[i].memo_id = id
       ELSE IF op = "emptyTrash" THEN id = "all" /\ Len(DisplayedMemos(memos, TRUE)) > 0
       ELSE \E i \in 1..Len(DisplayedMemos(memos, TRUE)) :
                DisplayedMemos(memos, TRUE)[i].memo_id = id
    /\ requests' = requests \cup {[op |-> op, id |-> id]}
    /\ UNCHANGED <<memos, last_done, responded>>
    /\ UNCHANGED <<graphVars, items, removals, jobVars, pipeVars, uploadVars>>

\* a restored memo keeps its is_deleted
StillDeleted(memo) == memo

\* { ...m, is_deleted: false }
Restored(memo) == [memo EXCEPT !.is_deleted = "false"]

\* the updaters of setMemos in handleDeleteMemo, handleRestoreMemo,
\* handleHardDeleteMemo and handleEmptyTrash
MemosAfter(prev, request) ==
    IF request.op = "delete"
    THEN [i \in 1..Len(prev) |-> IF prev[i].memo_id = request.id
                                 THEN [prev[i] EXCEPT !.is_deleted = "true"]
                                 ELSE prev[i]]
    ELSE IF request.op = "restore"
    THEN [i \in 1..Len(prev) |-> IF prev[i].memo_id = request.id
                                 THEN Restored(prev[i])
                                 ELSE prev[i]]
    ELSE IF request.op = "hardDelete"
    THEN SelectSeq(prev, LAMBDA memo : memo.memo_id # request.id)
    ELSE SelectSeq(prev, LAMBDA memo : memo.is_deleted # "true")

\* handleDeleteMemo, handleRestoreMemo, handleHardDeleteMemo and
\* handleEmptyTrash from their await on: the call returned or threw
Respond(request, ok) ==
    /\ request \in requests
    /\ requests' = requests \ {request}
    /\ responded' = IF ok THEN "ok" ELSE "failed"
    /\ memos' = IF ok THEN MemosAfter(memos, request) ELSE memos
    /\ last_done' =
          [id \in MemoIds |->
              IF ~ok THEN last_done[id]
              ELSE IF ~ \E i \in 1..Len(memos') : memos'[i].memo_id = id THEN "none"
              ELSE IF request.id = id /\ request.op \in {"delete", "restore"}
              THEN request.op
              ELSE last_done[id]]
    /\ UNCHANGED <<graphVars, items, removals, jobVars, pipeVars, uploadVars>>

NextMemo ==
    \/ \E op \in {"delete", "restore", "hardDelete"}, id \in MemoIds : CallBackend(op, id)
    \/ CallBackend("emptyTrash", "all")
    \/ \E request \in requests, ok \in BOOLEAN : Respond(request, ok)

SpecMemo == InitMemo /\ [][NextMemo]_vars

(***************************************************************************)
(* Properties of the merger.                                               *)
(***************************************************************************)
\* P holds of every call (nodes, edges, brain_id) that can be made next
ForEveryCall(P(_, _, _)) ==
    \A b \in Brains, kn \in 0..(MaxItems - items) :
        \A ke \in 0..(MaxItems - items - kn) :
            \A bn \in [1..kn -> NodeDicts], be \in [1..ke -> EdgeDicts] :
                P(bn, be, b)

NoRepeats(s) == \A i, j \in 1..Len(s) : s[i] = s[j] => i = j

NodesOf(N, name, brain_id) == {n \in BagToSet(N) : NodeMatches(n, name, brain_id)}

\* C1: from every reachable graph and for every batch, merging the batch a
\* second time leaves the graph exactly as the first merge left it (same
\* nodes with the same labels and lists, same edges).
MergeIdempotent ==
    ForEveryCall(LAMBDA bn, be, b :
        LET once == Insert(Graph, bn, be, b)
        IN Insert(once, bn, be, b) = once)

\* a node with two entries is stored and a node and an edge can still be merged
MergeIdempotentWitness ==
    /\ items + 2 <= MaxItems
    /\ \E n \in BagToSet(nodes) : Len(n.descriptions) >= 2

\* C2: the graph never holds two nodes with one (name, brain_id) nor two
\* edges with one (source, target, relation, brain_id).
KeysUnique ==
    /\ \A name \in Names, b \in Brains :
          CountWhere(nodes, LAMBDA n : NodeMatches(n, name, b)) <= 1
    /\ \A e \in BagToSet(edges) : edges[e] = 1

\* one name is a node of both projects
KeysUniqueWitness ==
    \E name \in Names : \A b \in Brains : NodesOf(nodes, name, b) # {}

\* C3 (as claimed): no stored descriptions or original_sentences list holds
\* the same serialized entry twice.
NoDuplicateEntries ==
    \A n \in BagToSet(nodes) :
        NoRepeats(n.descriptions) /\ NoRepeats(n.original_sentences)

\* the last batch node named name
LastNamed(bn, name) ==
    bn[CHOOSE i \in 1..Len(bn) :
          bn[i].name = name /\ \A j \in (i + 1)..Len(bn) : bn[j].name # name]

\* the serialized entries the batch brings for name
Incoming(bn, name, Field(_)) ==
    UNION {ToSet(Field(bn[i])) : i \in {j \in 1..Len(bn) : bn[j].name = name}}

\* C4: a merge that meets a stored node (name, brain_id) leaves exactly one
\* node with that key; its label is the incoming label and each of its two
\* lists holds every stored entry and every incoming entry, and nothing else.
MatchedNodeIsUnion ==
    ForEveryCall(LAMBDA bn, be, b :
        \A i \in 1..Len(bn) :
            \A old \in NodesOf(nodes, bn[i].name, b) :
                LET after == NodesOf(Insert(Graph, bn, be, b).nodes, bn[i].name, b)
                IN /\ Cardinality(after) = 1
                   /\ \A n \in after :
                        /\ n.label = LastNamed(bn, n.name).label
                        /\ ToSet(n.descriptions) =
                              ToSet(old.descriptions)
                                \cup Incoming(bn, n.name, NewDescriptions)
                        /\ ToSet(n.original_sentences) =
                              ToSet(old.original_sentences)
                                \cup Incoming(bn, n.name, NewOriginals))

\* one node holds the records of both sources
MatchedNodeIsUnionWitness ==
    \E n \in BagToSet(nodes) :
        /\ InSeq(JsonDumps(DescOf("s1")), n.descriptions)
        /\ InSeq(JsonDumps(DescOf("s2")), n.descriptions)
        /\ InSeq(JsonDumps(OrigOf("s1")), n.original_sentences)
        /\ InSeq(JsonDumps(OrigOf("s2")), n.original_sentences)

\* name, project and descriptions length of every node of N
DescriptionLengths(N) ==
    {<<n.name, n.brain_id, Len(n.descriptions)>> : n \in BagToSet(N)}

\* C12: an ingest hands its batch to insert_nodes_and_edges; from every
\* reachable graph and for every batch, the second ingest of that batch for
\* the same project leaves as many nodes and as many edges as the first
\* left, and each node with as many descriptions.
ReingestKeepsCounts ==
    ForEveryCall(LAMBDA bn, be, b :
        LET first == Insert(Graph, bn, be, b)
            second == Insert(first, bn, be, b)
        IN /\ BagCardinality(second.nodes) = BagCardinality(first.nodes)
           /\ BagCardinality(second.edges) = BagCardinality(first.edges)
           /\ DescriptionLengths(second.nodes) = DescriptionLengths(first.nodes))

\* the graph is what two ingests of one single-node batch leave
ReingestKeepsCountsWitness ==
    /\ items = 2
    /\ \E node \in NodeDicts, b \in Brains :
          /\ node.descriptions # <<>>
          /\ Graph = Insert(Insert(EmptyGraph, <<node>>, <<>>, b), <<node>>, <<>>, b)

HasEndpoints(N, e) ==
    /\ NodesOf(N, e.source, e.brain_id) # {}
    /\ NodesOf(N, e.target, e.brain_id) # {}

\* C5: every stored edge has its source and its target among the nodes of
\* its own brain_id, and a merge adds no edge whose source or target is
\* missing from that brain_id once the batch's nodes are in.
EdgesHaveEndpoints ==
    /\ \A e \in BagToSet(edges) : HasEndpoints(nodes, e)
    /\ ForEveryCall(LAMBDA bn, be, b :
          LET after == Insert(Graph, bn, be, b) IN
          \A i \in 1..Len(be) :
              ~HasEndpoints(after.nodes, RelOf(be[i], b))
                  => RelOf(be[i], b) \notin BagToSet(after.edges))

\* the two endpoints of an edge are stored, each in another project, and an
\* edge can still be merged
EdgesHaveEndpointsWitness ==
    /\ items < MaxItems
    /\ \E b1 \in Brains : \E b2 \in Brains \ {b1} :
          /\ NodesOf(nodes, "q", b1) # {} /\ NodesOf(nodes, "r", b1) = {}
          /\ NodesOf(nodes, "r", b2) # {} /\ NodesOf(nodes, "q", b2) = {}

(***************************************************************************)
(* Properties of the ingest orchestration.                                 *)
(***************************************************************************)
Commits(j) == pc[j] # "done" /\ pc'[j] = "done"

Fails(j) == pc[j] \notin Failures /\ pc'[j] \in Failures

OnlyCommitsWrite ==
    <<nodes, edges>>' # <<nodes, edges>>
        => \E j \in Jobs : pc[j] = "merging" /\ pc'[j] = "done"

\* node is stored in project b with every serialized entry it brought
NodePersisted(N, node, b) ==
    \E n \in NodesOf(N, node.name, b) :
        /\ ToSet(NewDescriptions(node)) \subseteq ToSet(n.descriptions)
        /\ ToSet(NewOriginals(node)) \subseteq ToSet(n.original_sentences)

WholeBatchPersisted(j) ==
    /\ \A i \in 1..Len(batch[j].nodes) :
          NodePersisted(nodes, batch[j].nodes[i], BrainOf(j))
    /\ \A i \in 1..Len(batch[j].edges) :
          HasEndpoints(nodes, RelOf(batch[j].edges[i], BrainOf(j)))
              => RelOf(batch[j].edges[i], BrainOf(j)) \in BagToSet(edges)

MergeSerializedPerProject ==
    \A j \in Jobs :
        pc[j] = "merging" =>
            /\ base[j] = ProjectGraph(BrainOf(j))
            /\ \A k \in Jobs \ {j} :
                  BrainOf(k) = BrainOf(j) => pc[k] # "merging"

\* merges of two projects run at once; one of them started from the graph
\* an earlier merge left, and a third job waits with its batch
MergeSerializedPerProjectWitness ==
    \E j \in Jobs, k \in Jobs, l \in Jobs :
        /\ BrainOf(j) = BrainOf(k) /\ BrainOf(l) # BrainOf(j)
        /\ pc[j] = "done" /\ pc[k] = "merging" /\ pc[l] = "merging"
        /\ base[k].nodes # EmptyBag
        /\ pos[k] > 0 /\ pos[l] > 0

KindOf(state) ==
    CASE state = "rejected" -> "InputRejected"
      [] state = "cancelled" -> "Cancelled"
      [] state = "failed" -> "PersistenceTransient"

\* C9: the step that ends an ingest in a failure leaves the graph unchanged
\* and returns the error of its kind, a persistence failure only after two
\* retries; an ingest that failed stays failed, and no step but the commit
\* of a merge that succeeds ever changes the graph.
FailureLeavesGraph ==
    [][/\ OnlyCommitsWrite
       /\ \A j \in Jobs :
            /\ Fails(j) => /\ <<nodes, edges>>' = <<nodes, edges>>
                            /\ result'[j] = KindOf(pc'[j])
            /\ (Fails(j) /\ pc'[j] = "failed") => attempts[j] = MaxRetries
            /\ pc[j] \in Failures
                  => pc'[j] = pc[j] /\ result'[j] = result[j]]_vars

\* next to a graph that holds a committed batch, one ingest has failed on
\* persistence and one was rejected or cancelled
FailureLeavesGraphWitness ==
    /\ nodes # EmptyBag
    /\ \E j \in Jobs, k \in Jobs :
          /\ pc[j] = "failed" /\ attempts[j] = MaxRetries
          /\ pc[k] \in {"rejected", "cancelled"}

KeptEntries(list, s) == SelectSeq(list, LAMBDA e : SourceTag(e) # s)

Returned == new_chunk_groups # <<>>

RECURSIVE Flatten(_)
Flatten(ss) == IF ss = <<>> THEN <<>> ELSE Head(ss) \o Flatten(Tail(ss))

\* the group that holds position p
GroupOf(p) ==
    CHOOSE g \in 1..Len(new_chunk_groups) : InSeq(p, new_chunk_groups[g])

\* the threshold of the call, lowered to the 9th smallest adjacent
\* similarity for a chunk of more than 10 sentences
EffectiveThreshold ==
    IF Len(chunk) > 10
    THEN MinOf(threshold, KthSmallest(Gaps(chunk, similarity_matrix), 9))
    ELSE threshold

\* C20: the groups returned are the positions 0..n-1 of the chunk cut into
\* runs, in order, and the neighbours j-1 and j are in one group exactly
\* when the similarity of their sentences is at least the (possibly
\* lowered) threshold.
GroupsAreThresholdRuns ==
    Returned =>
        /\ Flatten(new_chunk_groups) = Run(0, Len(chunk))
        /\ \A g \in 1..Len(new_chunk_groups) : new_chunk_groups[g] # <<>>
        /\ \A j \in 1..(Len(chunk) - 1) :
              GroupOf(j - 1) = GroupOf(j)
                <=> Geq(similarity_matrix[chunk[j + 1]][chunk[j]], EffectiveThreshold)

\* a chunk that starts at sentence 1 came back in several groups; two
\* neighbours whose similarity equals the threshold share a group
GroupsAreThresholdRunsWitness ==
    /\ Returned
    /\ chunk[1] = 1
    /\ Len(new_chunk_groups) > 2
    /\ \E j \in 1..(Len(chunk) - 1) :
          /\ GroupOf(j - 1) = GroupOf(j)
          /\ similarity_matrix[chunk[j + 1]][chunk[j]] = threshold

(***************************************************************************)
(* Properties of the recursive chunker and of the chunk graph builder.     *)
(***************************************************************************)
IndexSet(c) == {c[k] : k \in 1..Len(c)}

\* the calls the step has put on the stack: those in front of the calls
\* that were waiting behind the one just made
NewCalls == SubSeq(stack', 1, Len(stack') - Len(stack) + 1)

\* C13: at every recursive split the sentence-index sets of the child chunks
\* are pairwise disjoint, their union is the sentence-index set of the parent
\* chunk, and the children one after the other read as the parent chunk, so
\* that the indices keep the parent's order within and across children; the
\* recursive calls are made for these children, in this order.
SplitIsPartition ==
    [][\A missing \in {0, 1} :
          ChunkCall(-1, missing) =>
             LET parent == Head(stack).chunk
                 go_chunk == GoChunk(parent, GroupingIntoSmallerChunks(parent,
                                 similarity_matrix, Head(stack).threshold))
             IN /\ \A g, h \in 1..Len(go_chunk) :
                      g # h => IndexSet(go_chunk[g]) \cap IndexSet(go_chunk[h]) = {}
                /\ UNION {IndexSet(go_chunk[g]) : g \in 1..Len(go_chunk)}
                      = IndexSet(parent)
                /\ Flatten(go_chunk) = parent
                /\ \A i \in 1..Len(NewCalls) : NewCalls[i].chunk = go_chunk[i]]_vars

\* a chunk below the root has been split in two or more: its children wait
\* on the stack, behind each other
SplitIsPartitionWitness ==
    /\ phase = "chunking"
    /\ \E i \in 1..(Len(stack) - 1) :
          /\ stack[i].depth = 2
          /\ stack[i + 1].depth = 2
          /\ Len(stack[i].chunk) > 1
          /\ stack[i + 1].chunk[1] = stack[i].chunk[Len(stack[i].chunk)] + 1

\* a = 1.1 * b
IsElevenTenths(a, b) == Lowest(Ratio(10 * a.num, 11 * a.den)) = Lowest(b)

\* the call groups its chunk by a threshold below the one it was passed:
\* the chunk has more than 10 sentences and its 9th smallest adjacent
\* similarity is the smaller
Clamped(frame) ==
    /\ Len(frame.chunk) > 10
    /\ Less(KthSmallest(Gaps(frame.chunk, similarity_matrix), 9), frame.threshold)

\* C15: the threshold passed to the recursive calls at depth d+1 is 1.1
\* times the threshold by which the call at depth d grouped its chunk,
\* unless that threshold was clamped to the 9th smallest adjacent similarity.
ThresholdGrowsByTenth ==
    [][\A missing \in {0, 1} :
          ChunkCall(-1, missing) /\ ~Clamped(Head(stack)) =>
             \A i \in 1..Len(NewCalls) :
                /\ NewCalls[i].depth = Head(stack).depth + 1
                /\ IsElevenTenths(NewCalls[i].threshold, Head(stack).threshold)]_vars

\* calls of depth 2 wait in front of a call of depth 1, with 1.1 times its
\* threshold, which is a number
ThresholdGrowsByTenthWitness ==
    /\ phase = "chunking"
    /\ \E i, j \in 1..Len(stack) :
          /\ i < j
          /\ stack[i].depth = 2
          /\ stack[j].depth = 1
          /\ stack[j].threshold.den # 0
          /\ stack[i].threshold # stack[j].threshold
          /\ IsElevenTenths(stack[i].threshold, stack[j].threshold)

\* C19: in the edges one orchestration has emitted, no chunk-level edge,
\* emitted by the chunk graph builder, comes before a hierarchy edge,
\* emitted by the chunker, with the same source: for every parent keyword k
\* all hierarchy edges whose source is k are emitted before any chunk-level
\* edge whose source is k.
HierarchyEdgesFirst ==
    \A i, j \in 1..Len(nodes_and_edges.edges) :
        /\ nodes_and_edges.edges[i].by = "chunker"
        /\ nodes_and_edges.edges[j].by = "builder"
        /\ nodes_and_edges.edges[i].source = nodes_and_edges.edges[j].source
        => i < j

\* a keyword below the root is the source of a hierarchy edge, its chunk
\* having been split, and of a chunk-level edge, a chunk of the same
\* keyword having been final
HierarchyEdgesFirstWitness ==
    \E i, j \in 1..Len(nodes_and_edges.edges) :
        /\ nodes_and_edges.edges[i].by = "chunker"
        /\ nodes_and_edges.edges[j].by = "builder"
        /\ nodes_and_edges.edges[i].source = nodes_and_edges.edges[j].source
        /\ nodes_and_edges.edges[i].source \in Phrases

Checked(node) == node.role # "parent"

FitFailureDoesNotStopJob == phase # "raised"

\* the job ended at depth 0 for want of a similarity matrix
NoMatrix == phase \in {"raised", "aborted"}

\* C22: at depth 0, when the topic model gives no similarity matrix (the
\* empty matrix of its failure path), recursive chunking aborts the source
\* with a no-op result: the call returns, with no chunks, no nodes and no
\* edges, instead of ending in an exception.
EmptyMatrixAborts ==
    NoMatrix =>
        /\ phase = "aborted"
        /\ final_chunks = <<>>
        /\ nodes_and_edges = [nodes |-> <<>>, edges |-> <<>>]

TopLevel ==
    {i \in 1..Len(nodes_and_edges.nodes) : nodes_and_edges.nodes[i].role = "phrase"}

\* the child nodes made for the top-level node at position i follow it
ChildrenAfter(i) ==
    Cardinality({j \in (i + 1)..Len(nodes_and_edges.nodes) :
                    \A k \in (i + 1)..j : nodes_and_edges.nodes[k].role = "child"})

\* C24: for one finalized chunk the builder makes at most 5 new top-level
\* phrase nodes and at most 5 child nodes for each of them, and it stops
\* iterating as soon as the fifth new top-level node is made: after the edge
\* to that node only its child nodes and their edges follow.
BuilderBounded ==
    phase = "done" =>
        /\ Cardinality(TopLevel) <= 5
        /\ \A i \in TopLevel : ChildrenAfter(i) <= 5
        /\ Cardinality(TopLevel) = 5 =>
              LET fifth == CHOOSE i \in TopLevel : \A j \in TopLevel : j <= i
                  c == ChildrenAfter(fifth)
                  link == CHOOSE e \in 1..Len(nodes_and_edges.edges) :
                             /\ nodes_and_edges.edges[e].source = final_chunks[1].keyword
                             /\ nodes_and_edges.edges[e].target =
                                   nodes_and_edges.nodes[fifth].name
              IN /\ fifth + c = Len(nodes_and_edges.nodes)
                 /\ 2 * (Len(nodes_and_edges.edges) - link) = c * (c + 1)

\* five top-level nodes were made, one of them with five child nodes, and
\* the loop stopped before a phrase of the chunk was linked to the keyword
BuilderBoundedWitness ==
    /\ phase = "done"
    /\ Cardinality(TopLevel) = 5
    /\ \E i \in TopLevel : ChildrenAfter(i) = 5
    /\ \E s \in DOMAIN tokens :
          \A e \in 1..Len(nodes_and_edges.edges) :
             ~ (/\ nodes_and_edges.edges[e].source = final_chunks[1].keyword
                /\ nodes_and_edges.edges[e].target = tokens[s])

NodeNames == {nodes_and_edges.nodes[i].name : i \in 1..Len(nodes_and_edges.nodes)}

\* C26: every edge emitted during one job has its source and its target
\* among the names of the nodes emitted in the same job, by exact name (the
\* trailing '*' of the root included), so that the merger drops no emitted
\* edge for want of an endpoint.
EdgesHaveNodes ==
    phase = "done" =>
        \A e \in 1..Len(nodes_and_edges.edges) :
           /\ nodes_and_edges.edges[e].source \in NodeNames
           /\ nodes_and_edges.edges[e].target \in NodeNames

\* the calls a pending call of n sentences at depth d can still take, itself
\* included: its children share its n sentences, one level deeper
RECURSIVE CallsLeft(_)
CallsLeft(calls) ==
    IF calls = <<>> THEN 0
    ELSE Len(Head(calls).chunk) * (MaxDepth - Head(calls).depth) + 1
            + CallsLeft(Tail(calls))

\* C21: recursive chunking terminates: no call is ever made deeper than the
\* depth limit, also when a grouping step returns its parent chunk as the
\* one group, and every call made leaves fewer calls that can still be
\* made, so the calls come to an end.
ChunkingTerminates ==
    [][phase = "chunking" =>
          /\ \A i \in 1..Len(stack') : stack'[i].depth <= MaxDepth
          /\ CallsLeft(stack') < CallsLeft(stack)]_vars

\* the chunk of a call at the depth limit is the whole document, of more
\* than 3 sentences: every grouping step above it returned its parent chunk
ChunkingTerminatesWitness ==
    /\ phase = "chunking"
    /\ Head(stack).depth = MaxDepth
    /\ Head(stack).chunk = Document
    /\ Len(Document) > MinSentences

(***************************************************************************)
(* Properties of the segmenter.                                            *)
(***************************************************************************)
\* C18: for every text, the segmenter run on the text and then on the
\* newline-join of its output yields the sentences of the first run again.
SegmentationStable == runs = 2 => resegmented = final_sentences

(***************************************************************************)
(* Properties of the upload queue.                                         *)
(***************************************************************************)
\* C27: in the upload queue of the file list at most one item is being
\* uploaded or converted at any time, whatever the order of selections,
\* renders, effects and completions; the items are taken from the head in
\* queue order and every queued item is processed exactly once: the n-th
\* removal is that of the n-th item ever queued, after its own upload, and
\* the item in upload is the next one.
OneUploadAtATime ==
    /\ Len(uploading) <= 1
    /\ Len(handled) + Len(uploading) <= Len(enqueued)
    /\ \A n \in 1..Len(handled) :
          /\ handled[n].file = enqueued[n]
          /\ handled[n].removed = <<enqueued[n]>>
    /\ \A n \in 1..Len(uploading) : uploading[n] = enqueued[Len(handled) + n]

\* one item is done, one is in upload and others wait behind it
OneUploadAtATimeWitness ==
    /\ Len(handled) >= 1
    /\ Len(uploading) = 1
    /\ Len(uploadQueue) >= 2
    /\ isProcessing

NoDuplicateKeys ==
    \A i, j \in 1..Len(uploadQueue) :
        uploadQueue[i].key = uploadQueue[j].key => i = j

(***************************************************************************)
(* Properties of the memo panel.                                           *)
(***************************************************************************)
InView(memo, showTrash) == InSeq(memo, DisplayedMemos(memos, showTrash))

\* C30: after any sequence of soft deletes, restores, hard deletes and
\* emptyings of the bin, each succeeding or failing at the backend, every
\* memo the panel holds that is no source is shown in exactly one of the
\* two views, in the bin if and only if its last successful operation was a
\* soft delete and otherwise in the normal list; a backend call that fails
\* leaves the memos as they were.
MemoInOneView ==
    /\ [](\A i \in 1..Len(memos) :
            ~memos[i].is_source =>
               /\ InView(memos[i], TRUE) # InView(memos[i], FALSE)
               /\ InView(memos[i], TRUE) <=> last_done[memos[i].memo_id] = "delete")
    /\ [][(responded' = "failed" /\ requests' # requests /\ requests' \subseteq requests)
             => memos' = memos]_vars

\* a memo was restored, another was soft deleted, and the last call failed
MemoInOneViewWitness ==
    /\ responded = "failed"
    /\ \E i, j \in 1..Len(memos) :
          /\ ~memos[i].is_source
          /\ ~memos[j].is_source
          /\ last_done[memos[i].memo_id] = "restore"
          /\ last_done[memos[j].memo_id] = "delete"
          /\ InView(memos[i], FALSE)
          /\ InView(memos[j], TRUE)
====
